---- MODULE Spec2Model ----
(***************************************************************************)
(* The SyncSettings React component (src/components/SyncSettings.tsx).     *)
(*                                                                         *)
(* The React state of the component is one variable per useState hook.     *)
(* A handler runs synchronously up to its first await; what it has not     *)
(* finished by then is a task in flight.  A task keeps the values the      *)
(* handler closed over when it was invoked (field c): state updates made   *)
(* after that, by the handler itself or by others, are not seen by it.     *)
(* A JavaScript object is a record whose DOMAIN is the set of keys that    *)
(* carry a defined value.  autoSync and auto_sync hold a boolean or        *)
(* undefined: one of the strings "true", "false" and "undefined".          *)
(***************************************************************************)
EXTENDS Naturals, Sequences, FiniteSets, TLC

VARIABLES
    seedPhrase,         \* useState('')
    autoSync,           \* useState(false): "true", "false" or "undefined"
    showNewSeedPhrase,  \* useState(false)
    newSeedPhrase,      \* useState('')
    syncing,            \* useState(false)
    selectedServer,     \* useState(DEFAULT_SERVERS[0].value)
    customServers,      \* useState<string[]>([])
    newServerUrl,       \* useState('')
    showAddServer,      \* useState(false)
    isValidUrl,         \* useState(false)
    onSync,             \* the onSync prop: TRUE when the parent passes a callback
    loading,            \* TRUE while the mount effect's loadSettings is in flight
    tasks,              \* the handler invocations in flight, oldest first
    stored,             \* the settings object WebStorageService holds
    written,            \* the argument of the latest saveSyncSettings call
    cryptoKey,          \* the phrase the crypto service was last initialized with
    notification,       \* the latest notifications.show
    lastDone,           \* history: the task that completed since the last invocation
    clean,              \* history: no handler overlapped another, no awaited call failed
    invoked,            \* history: the handler that was invoked last
    typed,              \* history: the value typed last into the Seed Phrase field
    events              \* history: the number of handler invocations so far

ui == <<seedPhrase, autoSync, showNewSeedPhrase, newSeedPhrase, syncing,
        selectedServer, customServers, newServerUrl, showAddServer, isValidUrl>>
vars == <<seedPhrase, autoSync, showNewSeedPhrase, newSeedPhrase, syncing,
          selectedServer, customServers, newServerUrl, showAddServer, isValidUrl,
          onSync, loading, tasks, stored, written, cryptoKey, notification,
          lastDone, clean, invoked, typed, events>>

(***************************************************************************)
(* Bounds of the model.                                                    *)
(***************************************************************************)
MaxTasks == 2
MaxEvents == 2
InitialInterval == 5

(***************************************************************************)
(* Constants and inputs.                                                   *)
(***************************************************************************)
DEFAULT_SERVERS == <<"https://notes-sync.0xgingi.com", "http://localhost:3222">>

DefaultValues == {DEFAULT_SERVERS[i] : i \in 1..Len(DEFAULT_SERVERS)}

\* What the user can type into the Server URL field.
UrlStrings == {"", "example.com", "https://a.example", DEFAULT_SERVERS[1]}

\* What the user can type into the Seed Phrase field.
SeedStrings == {"", "alpha"}

\* What CryptoService.generateNewSeedPhrase can return.
Mnemonics == {"mnemo"}

\* The value of a key that an object does not carry.
Undefined == "undefined"

SettingsFields == {"seed_phrase", "server_url", "custom_servers", "auto_sync", "sync_interval"}

NoWrite == [none |-> TRUE]
NoTask == [h |-> "none"]
NoNotification == [title |-> "none", message |-> <<>>]

Notify(title, message) == [title |-> title, message |-> message]

\* new URL(url) succeeds: url has a scheme (and, for http and https, a host).
\* "example.com" and "" have no scheme and make the constructor throw.
validateUrl(url) ==
    url \in {"https://a.example", "http://b.example",
             "https://notes-sync.0xgingi.com", "http://localhost:3222"}

Has(obj, key) == key \in DOMAIN obj

\* An object literal: the keys of fields whose value is defined.
Obj(fields, undefinedKeys) ==
    [k \in (DOMAIN fields) \ undefinedKeys |-> fields[k]]

Closure == [autoSync |-> autoSync, selectedServer |-> selectedServer,
            customServers |-> customServers, seedPhrase |-> seedPhrase]

Includes(seq, x) == \E i \in 1..Len(seq) : seq[i] = x

Filter(seq, x) == SelectSeq(seq, LAMBDA u : u # x)

RemoveAt(seq, i) == SubSeq(seq, 1, i - 1) \o SubSeq(seq, i + 1, Len(seq))

ReplaceAt(seq, i, t) == [seq EXCEPT ![i] = t]

(***************************************************************************)
(* The state after construction: every hook holds its initial value, the   *)
(* mount effect's loadSettings is in flight, and storage holds either the  *)
(* settings of a fresh installation or those an earlier session left.      *)
(***************************************************************************)
InitialSettings ==
    { [seed_phrase |-> "", server_url |-> DEFAULT_SERVERS[1], custom_servers |-> <<>>,
       auto_sync |-> "false", sync_interval |-> InitialInterval],
      [seed_phrase |-> "alpha", server_url |-> "https://a.example",
       custom_servers |-> <<"https://a.example">>,
       auto_sync |-> "true", sync_interval |-> InitialInterval] }

Init ==
    /\ seedPhrase = ""
    /\ autoSync = "false"
    /\ showNewSeedPhrase = FALSE
    /\ newSeedPhrase = ""
    /\ syncing = FALSE
    /\ selectedServer = DEFAULT_SERVERS[1]
    /\ customServers = <<>>
    /\ newServerUrl = ""
    /\ showAddServer = FALSE
    /\ isValidUrl = FALSE
    /\ onSync \in BOOLEAN
    /\ loading = TRUE
    /\ tasks = <<>>
    /\ stored \in InitialSettings
    /\ written = NoWrite
    /\ cryptoKey = "none"
    /\ notification = NoNotification
    /\ lastDone = NoTask
    /\ clean = TRUE
    /\ invoked = "none"
    /\ typed = "none"
    /\ events = 0

\* The state after construction when an earlier session left two custom
\* servers, the second of them selected.
TwoServers ==
    [seed_phrase |-> "alpha", server_url |-> "http://b.example",
     custom_servers |-> <<"https://a.example", "http://b.example">>,
     auto_sync |-> "true", sync_interval |-> InitialInterval]

InitTwoServers ==
    /\ seedPhrase = ""
    /\ autoSync = "false"
    /\ showNewSeedPhrase = FALSE
    /\ newSeedPhrase = ""
    /\ syncing = FALSE
    /\ selectedServer = DEFAULT_SERVERS[1]
    /\ customServers = <<>>
    /\ newServerUrl = ""
    /\ showAddServer = FALSE
    /\ isValidUrl = FALSE
    /\ onSync \in BOOLEAN
    /\ loading = TRUE
    /\ tasks = <<>>
    /\ stored = TwoServers
    /\ written = NoWrite
    /\ cryptoKey = "none"
    /\ notification = NoNotification
    /\ lastDone = NoTask
    /\ clean = TRUE
    /\ invoked = "none"
    /\ typed = "none"
    /\ events = 0

(***************************************************************************)
(* Bookkeeping shared by the handlers.                                     *)
(***************************************************************************)
\* No handler is waiting to be resumed after an await that has returned: the
\* promise reactions queued run before the next event of the user is handled.
NoReactionQueued == \A i \in 1..Len(tasks) : tasks[i].pc # "returned"

CanInvoke == events < MaxEvents /\ Len(tasks) < MaxTasks /\ NoReactionQueued

\* A handler is invoked and returns at once, leaving no task.
Invoked(handler) ==
    /\ events' = events + 1
    /\ invoked' = handler
    /\ typed' = typed
    /\ clean' = (clean /\ tasks = <<>> /\ ~loading)
    /\ lastDone' = NoTask
    /\ UNCHANGED tasks

\* lines 285-287: the task of an edit of the Seed Phrase field carries the
\* value typed.
Typed(task) ==
    IF task.h = "saveSettings" /\ Has(task.updates, "seed_phrase") THEN task.arg ELSE typed

\* A handler is invoked and suspends at its first await.
Suspended(task) ==
    /\ events' = events + 1
    /\ invoked' = task.h
    /\ typed' = Typed(task)
    /\ clean' = (clean /\ tasks = <<>> /\ ~loading)
    /\ tasks' = Append(tasks, task)
    /\ lastDone' = NoTask

\* What is kept of a saveSettings task that has completed.
Summary(t) == [h |-> t.h, arg |-> t.arg, selected |-> t.c.selectedServer, pc |-> t.pc]

\* The task at position i runs to its end.
Completed(i, task) ==
    /\ tasks' = RemoveAt(tasks, i)
    /\ lastDone' = task

(***************************************************************************)
(* loadSettings: the mount effect (lines 66-79).  getSyncSettings resolves *)
(* and the four setters run, or it rejects and only console.error runs.    *)
(* Only custom_servers and seed_phrase have a default: an object without   *)
(* auto_sync or server_url leaves autoSync or selectedServer undefined.    *)
(***************************************************************************)
loadSettings ==
    /\ loading
    /\ loading' = FALSE
    /\ \/ /\ autoSync' = IF Has(stored, "auto_sync") THEN stored.auto_sync ELSE Undefined
          /\ selectedServer' = IF Has(stored, "server_url") THEN stored.server_url ELSE Undefined
          /\ customServers' = IF Has(stored, "custom_servers") THEN stored.custom_servers ELSE <<>>
          /\ seedPhrase' = IF Has(stored, "seed_phrase") THEN stored.seed_phrase ELSE ""
          /\ UNCHANGED clean
       \/ /\ clean' = FALSE
          /\ UNCHANGED <<autoSync, selectedServer, customServers, seedPhrase>>
    /\ UNCHANGED <<showNewSeedPhrase, newSeedPhrase, syncing, newServerUrl, showAddServer,
                   isValidUrl, onSync, tasks, stored, written, cryptoKey, notification,
                   lastDone, invoked, typed, events>>

(***************************************************************************)
(* The add-server modal (lines 272-278, 317-344) and its URL field.        *)
(***************************************************************************)
OpenAddServer ==
    /\ NoReactionQueued
    /\ ~showAddServer
    /\ showAddServer' = TRUE
    /\ UNCHANGED <<seedPhrase, autoSync, showNewSeedPhrase, newSeedPhrase, syncing,
                   selectedServer, customServers, newServerUrl, isValidUrl,
                   onSync, loading, tasks, stored, written, cryptoKey, notification,
                   lastDone, clean, invoked, typed, events>>

CloseAddServer ==
    /\ NoReactionQueued
    /\ showAddServer
    /\ showAddServer' = FALSE
    /\ UNCHANGED <<seedPhrase, autoSync, showNewSeedPhrase, newSeedPhrase, syncing,
                   selectedServer, customServers, newServerUrl, isValidUrl,
                   onSync, loading, tasks, stored, written, cryptoKey, notification,
                   lastDone, clean, invoked, typed, events>>

handleUrlChange(value) ==
    /\ NoReactionQueued
    /\ showAddServer
    /\ newServerUrl' = value
    /\ isValidUrl' = validateUrl(value)
    /\ UNCHANGED <<seedPhrase, autoSync, showNewSeedPhrase, newSeedPhrase, syncing,
                   selectedServer, customServers, showAddServer,
                   onSync, loading, tasks, stored, written, cryptoKey, notification,
                   lastDone, clean, invoked, typed, events>>

(***************************************************************************)
(* saveSettings(updates) (lines 82-100), as far as its first await: the    *)
(* task that a handler leaves when it calls saveSettings.  The object is   *)
(* built after getSyncSettings resolves, from updates and from the values  *)
(* the handler closed over.                                                *)
(***************************************************************************)
saveSettings(handler, c, updates, arg, stage) ==
    [h |-> handler, pc |-> "getSyncSettings", c |-> c, updates |-> updates,
     arg |-> arg, stage |-> stage, obj |-> NoWrite]

\* newSettings (lines 85-91).
newSettings(c, updates, currentSettings) ==
    Obj([auto_sync |-> IF Has(updates, "auto_sync") THEN updates.auto_sync ELSE c.autoSync,
         server_url |-> IF Has(updates, "server_url") THEN updates.server_url
                        ELSE c.selectedServer,
         custom_servers |-> IF Has(updates, "custom_servers") THEN updates.custom_servers
                            ELSE c.customServers,
         seed_phrase |-> IF Has(updates, "seed_phrase") THEN updates.seed_phrase
                         ELSE c.seedPhrase,
         sync_interval |-> IF Has(currentSettings, "sync_interval")
                           THEN currentSettings.sync_interval ELSE 0],
        (IF Has(currentSettings, "sync_interval") THEN {} ELSE {"sync_interval"})
          \cup (IF ~Has(updates, "server_url") /\ c.selectedServer = Undefined
                THEN {"server_url"} ELSE {})
          \cup (IF ~Has(updates, "auto_sync") /\ c.autoSync = Undefined
                THEN {"auto_sync"} ELSE {}))

(***************************************************************************)
(* The end of saveSettings (lines 93-100).  saveSettings catches its own   *)
(* errors, so it returns whether the storage calls succeeded or not; shown *)
(* is the latest notification, 'Failed to save settings' when they did     *)
(* not.  The seed phrase field and the auto-sync switch do not await it:   *)
(* nothing is left to run.  A handler that awaits it is resumed in a later *)
(* promise reaction, after the reactions that were already queued.         *)
(***************************************************************************)
SaveReturns(i, shown) ==
    /\ notification' = shown
    /\ IF tasks[i].h = "saveSettings"
       THEN Completed(i, Summary(tasks[i]))
       ELSE /\ tasks' = ReplaceAt(tasks, i, [tasks[i] EXCEPT !.pc = "returned"])
            /\ UNCHANGED lastDone
    /\ UNCHANGED ui

\* WebStorageService.saveSyncSettings(settings): storage holds the object it
\* was given, as a whole.
saveSyncSettings(settings) == settings

SaveFailed == Notify("Error", <<"Failed to save settings">>)

\* saveSettings, line 84: the awaited getSyncSettings settles.
getSyncSettingsSettles(i) ==
    /\ tasks[i].pc = "getSyncSettings"
    /\ \/ /\ written' = newSettings(tasks[i].c, tasks[i].updates, stored)
          /\ tasks' = ReplaceAt(tasks, i, [tasks[i] EXCEPT !.pc = "saveSyncSettings",
                                                            !.obj = written'])
          /\ UNCHANGED <<ui, notification, lastDone, clean>>
       \/ /\ SaveReturns(i, SaveFailed)
          /\ clean' = FALSE
          /\ UNCHANGED written
    /\ UNCHANGED <<onSync, loading, stored, cryptoKey, invoked, typed, events>>

\* saveSettings, line 92: the awaited saveSyncSettings(newSettings) settles.
saveSyncSettingsSettles(i) ==
    /\ tasks[i].pc = "saveSyncSettings"
    /\ tasks[i].h # "handleSync"
    /\ \/ /\ stored' = saveSyncSettings(tasks[i].obj)
          /\ SaveReturns(i, notification)
          /\ UNCHANGED clean
       \/ /\ SaveReturns(i, SaveFailed)
          /\ clean' = FALSE
          /\ UNCHANGED stored
    /\ UNCHANGED <<onSync, loading, written, cryptoKey, invoked, typed, events>>

(***************************************************************************)
(* What a handler does when it is resumed after await saveSettings(...)    *)
(* (lines 121, 145, 150, 157, 227).                                        *)
(***************************************************************************)
AfterSave(i) ==
    LET t == tasks[i] IN
    /\ t.pc = "returned"
    /\ CASE t.h = "handleAddServer" ->
            \* lines 125-132
            /\ newServerUrl' = ""
            /\ showAddServer' = FALSE
            /\ notification' = Notify("Success", <<"Server added successfully">>)
            /\ Completed(i, Summary(t))
            /\ UNCHANGED <<seedPhrase, autoSync, showNewSeedPhrase, newSeedPhrase, syncing,
                           selectedServer, customServers, isValidUrl>>
         [] t.h = "handleRemoveServer" /\ t.stage = 1 /\ t.c.selectedServer = t.arg ->
            \* lines 147-150
            /\ selectedServer' = DEFAULT_SERVERS[1]
            /\ tasks' = ReplaceAt(tasks, i,
                                  saveSettings("handleRemoveServer", t.c,
                                               [server_url |-> DEFAULT_SERVERS[1]], t.arg, 2))
            /\ UNCHANGED <<seedPhrase, autoSync, showNewSeedPhrase, newSeedPhrase, syncing,
                           customServers, newServerUrl, showAddServer, isValidUrl,
                           notification, lastDone>>
         [] t.h = "generateNewSeedPhrase" ->
            \* line 228
            /\ showNewSeedPhrase' = TRUE
            /\ Completed(i, Summary(t))
            /\ UNCHANGED <<seedPhrase, autoSync, newSeedPhrase, syncing, selectedServer,
                           customServers, newServerUrl, showAddServer, isValidUrl,
                           notification>>
         [] OTHER ->
            \* lines 151-152, 158-159: the handler returns
            /\ Completed(i, Summary(t))
            /\ UNCHANGED <<ui, notification>>
    /\ UNCHANGED <<onSync, loading, stored, written, cryptoKey, clean, invoked, typed, events>>

(***************************************************************************)
(* The handlers of the server list.                                        *)
(***************************************************************************)
\* lines 108-109: the URL typed is a custom server already, or a default one.
OnlyCustomChecked == Includes(customServers, newServerUrl)

AlreadyExists ==
    Includes(customServers, newServerUrl) \/ newServerUrl \in DefaultValues

\* lines 102-140.  The catch of lines 133-139 is dead: nothing in the try throws.
handleAddServer ==
    /\ CanInvoke
    /\ IF ~isValidUrl
       THEN /\ Invoked("handleAddServer")
            /\ UNCHANGED <<ui, notification>>
       ELSE IF AlreadyExists
       THEN /\ Invoked("handleAddServer")
            /\ notification' = Notify("Error", <<"Server already exists">>)
            /\ UNCHANGED ui
       ELSE /\ customServers' = Append(customServers, newServerUrl)
            /\ selectedServer' = newServerUrl
            /\ Suspended(saveSettings("handleAddServer", Closure,
                                      [custom_servers |-> Append(customServers, newServerUrl),
                                       server_url |-> newServerUrl],
                                      newServerUrl, 1))
            /\ UNCHANGED <<seedPhrase, autoSync, showNewSeedPhrase, newSeedPhrase, syncing,
                           newServerUrl, showAddServer, isValidUrl, notification>>
    /\ UNCHANGED <<onSync, loading, stored, written, cryptoKey>>

\* lines 58-62: a key is pressed in the URL field.
handleKeyPress(key) ==
    /\ NoReactionQueued
    /\ showAddServer
    /\ IF key = "Enter" /\ isValidUrl THEN handleAddServer ELSE UNCHANGED vars

\* lines 336-341: the Add Server button of the modal, disabled while ~isValidUrl.
ClickAddServer ==
    /\ showAddServer
    /\ isValidUrl
    /\ handleAddServer

\* lines 142-152, as far as the first await.
handleRemoveServer(serverUrl) ==
    /\ CanInvoke
    /\ customServers' = Filter(customServers, serverUrl)
    /\ Suspended(saveSettings("handleRemoveServer", Closure,
                              [custom_servers |-> Filter(customServers, serverUrl)],
                              serverUrl, 1))
    /\ UNCHANGED <<seedPhrase, autoSync, showNewSeedPhrase, newSeedPhrase, syncing,
                   selectedServer, newServerUrl, showAddServer, isValidUrl,
                   onSync, loading, stored, written, cryptoKey, notification>>

\* lines 244-255: the trash icon of a custom server's option.
ClickRemoveServer ==
    \E n \in 1..Len(customServers) : handleRemoveServer(customServers[n])

\* lines 154-159.  value is null when the option is deselected.
handleServerChange(value) ==
    /\ CanInvoke
    /\ IF value # "null" /\ value # ""
       THEN /\ selectedServer' = value
            /\ Suspended(saveSettings("handleServerChange", Closure,
                                      [server_url |-> value], value, 1))
       ELSE /\ Invoked("handleServerChange")
            /\ UNCHANGED selectedServer
    /\ UNCHANGED <<seedPhrase, autoSync, showNewSeedPhrase, newSeedPhrase, syncing,
                   customServers, newServerUrl, showAddServer, isValidUrl,
                   onSync, loading, stored, written, cryptoKey, notification>>

\* lines 264-271: the Select offers the default servers and the custom ones.
SelectServer ==
    \E value \in DefaultValues \cup {customServers[n] : n \in 1..Len(customServers)}
                 \cup {"null"} :
        handleServerChange(value)

(***************************************************************************)
(* The seed phrase field and the auto-sync switch: both call saveSettings  *)
(* without awaiting it.                                                    *)
(***************************************************************************)
\* lines 281-289: the field shows seedPhrase (line 284), and onChange fires
\* when what is typed makes the value differ from it.
SeedPhraseInput(value) ==
    /\ CanInvoke
    /\ value # seedPhrase
    /\ seedPhrase' = value
    /\ Suspended(saveSettings("saveSettings", Closure, [seed_phrase |-> value], value, 1))
    /\ UNCHANGED <<autoSync, showNewSeedPhrase, newSeedPhrase, syncing, selectedServer,
                   customServers, newServerUrl, showAddServer, isValidUrl,
                   onSync, loading, stored, written, cryptoKey, notification>>

\* line 308: the switch shows autoSync, and shows unchecked while autoSync is
\* undefined; e.currentTarget.checked is the opposite of what it shows.
Checked == IF autoSync = "true" THEN "false" ELSE "true"

\* lines 306-313
AutoSyncSwitch ==
    /\ CanInvoke
    /\ autoSync' = Checked
    /\ Suspended(saveSettings("saveSettings", Closure, [auto_sync |-> Checked], "", 1))
    /\ UNCHANGED <<seedPhrase, showNewSeedPhrase, newSeedPhrase, syncing, selectedServer,
                   customServers, newServerUrl, showAddServer, isValidUrl,
                   onSync, loading, stored, written, cryptoKey, notification>>

(***************************************************************************)
(* handleSync (lines 161-214).  A cycle in flight records the calls it has *)
(* made: calls counts them per service, probed is the server passed to     *)
(* healthCheck and health what it returned, target is the server passed to *)
(* syncWithServer, synced is set once syncWithServer has resolved, failed  *)
(* is the step that threw, shown the notification of the cycle and shows   *)
(* the number of notifications the cycle has shown.                        *)
(***************************************************************************)
NoCalls == [initializeCrypto |-> 0, healthCheck |-> 0, syncWithServer |-> 0,
            saveSyncSettings |-> 0, onSync |-> 0]

Call(t, service) ==
    [t EXCEPT !.pc = service, !.calls[service] = @ + 1]

\* line 162: if (!seedPhrase); the empty string is the only falsy string.
SeedPhraseNeverMissing == FALSE

SeedPhraseMissing == seedPhrase = ""

\* lines 161-176, as far as the first await
handleSync ==
    /\ CanInvoke
    /\ IF SeedPhraseMissing
       THEN /\ notification' = Notify("Error", <<"Please enter a seed phrase">>)
            /\ Invoked("handleSync")
            /\ UNCHANGED syncing
       ELSE /\ syncing' = TRUE
            /\ Suspended(Call([h |-> "handleSync", pc |-> "start", c |-> Closure,
                               calls |-> NoCalls, probed |-> "none", health |-> "none",
                               target |-> "none", synced |-> FALSE, failed |-> "none",
                               shown |-> NoNotification, shows |-> 0],
                              "initializeCrypto"))
            /\ UNCHANGED notification
    /\ UNCHANGED <<seedPhrase, autoSync, showNewSeedPhrase, newSeedPhrase, selectedServer,
                   customServers, newServerUrl, showAddServer, isValidUrl,
                   onSync, loading, stored, written, cryptoKey>>

\* lines 292-297: a Button with loading set takes no click.
AlwaysEnabled == TRUE

SyncButtonEnabled == ~syncing

ClickSyncNow ==
    /\ SyncButtonEnabled
    /\ handleSync

\* line 212: the finally clears syncing.
SyncingLeftSet == syncing

SyncingAfterCycle == FALSE

\* lines 203-210: what the cycle has done once the catch has run.
CaughtAfterOnSync(t, step, message) ==
    [t EXCEPT !.pc = "done", !.failed = step, !.shown = Notify("Error", message),
              !.shows = @ + 1, !.calls.onSync = @ + 1]

Caught(t, step, message) ==
    [t EXCEPT !.pc = "done", !.failed = step, !.shown = Notify("Error", message),
              !.shows = @ + 1]

\* lines 203-213: the catch shows the error, the finally clears syncing.
SyncFails(i, t, step, message) ==
    /\ notification' = Notify("Error", message)
    /\ syncing' = SyncingAfterCycle
    /\ Completed(i, Caught(t, step, message))
    /\ clean' = FALSE
    /\ UNCHANGED <<seedPhrase, autoSync, showNewSeedPhrase, newSeedPhrase, selectedServer,
                   customServers, newServerUrl, showAddServer, isValidUrl,
                   onSync, loading, invoked, typed, events>>

\* lines 198-202 and 211-213: the success notification, then the finally.
SyncSucceeds(i) ==
    /\ notification' = Notify("Success", <<"Notes synced successfully">>)
    /\ syncing' = SyncingAfterCycle
    /\ Completed(i, [tasks[i] EXCEPT !.pc = "done", !.shows = @ + 1,
                                    !.shown = Notify("Success", <<"Notes synced successfully">>)])
    /\ UNCHANGED <<seedPhrase, autoSync, showNewSeedPhrase, newSeedPhrase, selectedServer,
                   customServers, newServerUrl, showAddServer, isValidUrl,
                   onSync, loading, clean, invoked, typed, events>>

SyncContinues(i, t) ==
    /\ tasks' = ReplaceAt(tasks, i, t)
    /\ UNCHANGED <<ui, onSync, loading, notification, lastDone, clean, invoked, typed, events>>

\* line 176 rejects: the await throws inside the try, so the catch and the
\* finally run and nothing after line 176 does.
CryptoRejectionSwallowed(i) ==
    /\ SyncContinues(i, [Call(tasks[i], "healthCheck")
                           EXCEPT !.probed = tasks[i].c.selectedServer,
                                  !.failed = "initializeCrypto"])
    /\ UNCHANGED cryptoKey

initializeCryptoRejects(i) ==
    /\ SyncFails(i, tasks[i], "initializeCrypto", <<"initializeCrypto failed">>)
    /\ UNCHANGED cryptoKey

\* line 176 settles; on success line 180 calls healthCheck(selectedServer),
\* with the selectedServer the handler closed over.
initializeCryptoSettles(i) ==
    /\ tasks[i].h = "handleSync"
    /\ tasks[i].pc = "initializeCrypto"
    /\ \/ /\ cryptoKey' = tasks[i].c.seedPhrase
          /\ SyncContinues(i, [Call(tasks[i], "healthCheck")
                                 EXCEPT !.probed = tasks[i].c.selectedServer])
       \/ initializeCryptoRejects(i)
    /\ UNCHANGED <<stored, written>>

\* line 181: if (!isHealthy)
NeverUnhealthy(isHealthy) == FALSE

Unhealthy(isHealthy) == ~isHealthy

\* line 187: the server passed to syncWithServer is the selectedServer the
\* handler closed over, not the one selected by now.
SelectedNow(t) == selectedServer

SyncServer(t) == t.c.selectedServer

\* line 180 settles; lines 181-187: an unhealthy server throws, a healthy one
\* is passed to syncWithServer.
healthCheckSettles(i) ==
    /\ tasks[i].h = "handleSync"
    /\ tasks[i].pc = "healthCheck"
    /\ \/ \E isHealthy \in BOOLEAN :
            LET t == [tasks[i] EXCEPT !.health = IF isHealthy THEN "true" ELSE "false"] IN
            IF Unhealthy(isHealthy)
            THEN SyncFails(i, t, "unhealthy",
                           <<"Server ", t.c.selectedServer, " is not healthy">>)
            ELSE SyncContinues(i, [Call(t, "syncWithServer") EXCEPT !.target = SyncServer(t)])
       \/ SyncFails(i, [tasks[i] EXCEPT !.health = "rejected"], "healthCheck",
                    <<"healthCheck failed">>)
    /\ UNCHANGED <<stored, written, cryptoKey>>

\* line 187 settles; on success line 191 calls saveSyncSettings with the seed
\* phrase alone.
syncWithServerSettles(i) ==
    /\ tasks[i].h = "handleSync"
    /\ tasks[i].pc = "syncWithServer"
    /\ \/ /\ written' = [seed_phrase |-> tasks[i].c.seedPhrase]
          /\ SyncContinues(i, [Call(tasks[i], "saveSyncSettings") EXCEPT !.synced = TRUE])
       \/ /\ SyncFails(i, tasks[i], "syncWithServer", <<"syncWithServer failed">>)
          /\ UNCHANGED written
    /\ UNCHANGED <<stored, cryptoKey>>

\* line 191 settles; lines 194-196 call onSync when the prop is set.
syncSaveSettles(i) ==
    /\ tasks[i].h = "handleSync"
    /\ tasks[i].pc = "saveSyncSettings"
    /\ \/ /\ stored' = saveSyncSettings([seed_phrase |-> tasks[i].c.seedPhrase])
          /\ IF onSync
             THEN SyncContinues(i, Call(tasks[i], "onSync"))
             ELSE SyncSucceeds(i)
       \/ /\ SyncFails(i, tasks[i], "saveSyncSettings", <<"saveSyncSettings failed">>)
          /\ UNCHANGED stored
    /\ UNCHANGED <<written, cryptoKey>>

\* line 195 rejects: the await throws inside the try, so the success
\* notification of lines 198-202 is skipped and the catch shows the error.
OnSyncRejectionIgnored(i) ==
    /\ notification' = Notify("Success", <<"Notes synced successfully">>)
    /\ syncing' = SyncingAfterCycle
    /\ Completed(i, [tasks[i] EXCEPT !.pc = "done", !.failed = "onSync", !.shows = @ + 1,
                                    !.shown = Notify("Success", <<"Notes synced successfully">>)])
    /\ clean' = FALSE
    /\ UNCHANGED <<seedPhrase, autoSync, showNewSeedPhrase, newSeedPhrase, selectedServer,
                   customServers, newServerUrl, showAddServer, isValidUrl,
                   onSync, loading, invoked, typed, events>>

onSyncRejects(i) ==
    SyncFails(i, tasks[i], "onSync", <<"onSync failed">>)

\* line 195 settles.
onSyncSettles(i) ==
    /\ tasks[i].h = "handleSync"
    /\ tasks[i].pc = "onSync"
    /\ \/ SyncSucceeds(i)
       \/ onSyncRejects(i)
    /\ UNCHANGED <<stored, written, cryptoKey>>

(***************************************************************************)
(* generateNewSeedPhrase (lines 216-237).                                  *)
(***************************************************************************)
\* lines 216-222, as far as the first await
generateNewSeedPhrase ==
    /\ CanInvoke
    /\ \E mnemonic \in Mnemonics :
         Suspended([h |-> "generateNewSeedPhrase", pc |-> "initializeCrypto", c |-> Closure,
                    updates |-> [seed_phrase |-> mnemonic], arg |-> mnemonic, stage |-> 1,
                    obj |-> NoWrite])
    /\ UNCHANGED <<ui, onSync, loading, stored, written, cryptoKey, notification>>

\* line 222 rejects: the setters of lines 225-226 come after the await, so
\* only the catch of lines 229-236 runs.
SeedSetBeforeKey(i) ==
    /\ notification' = Notify("Error", <<"Failed to generate seed phrase">>)
    /\ newSeedPhrase' = tasks[i].arg
    /\ seedPhrase' = tasks[i].arg
    /\ Completed(i, Summary([tasks[i] EXCEPT !.pc = "failed"]))
    /\ clean' = FALSE
    /\ UNCHANGED <<autoSync, showNewSeedPhrase, syncing, selectedServer, customServers,
                   newServerUrl, showAddServer, isValidUrl, cryptoKey>>

generateCryptoRejects(i) ==
    /\ notification' = Notify("Error", <<"Failed to generate seed phrase">>)
    /\ Completed(i, Summary([tasks[i] EXCEPT !.pc = "failed"]))
    /\ clean' = FALSE
    /\ UNCHANGED <<ui, cryptoKey>>

\* line 222 settles; lines 225-227, or the catch of lines 229-236.
generateCryptoSettles(i) ==
    /\ tasks[i].h = "generateNewSeedPhrase"
    /\ tasks[i].pc = "initializeCrypto"
    /\ \/ /\ cryptoKey' = tasks[i].arg
          /\ newSeedPhrase' = tasks[i].arg
          /\ seedPhrase' = tasks[i].arg
          /\ tasks' = ReplaceAt(tasks, i, [tasks[i] EXCEPT !.pc = "getSyncSettings"])
          /\ UNCHANGED <<autoSync, showNewSeedPhrase, syncing, selectedServer, customServers,
                         newServerUrl, showAddServer, isValidUrl, notification, lastDone, clean>>
       \/ generateCryptoRejects(i)
    /\ UNCHANGED <<onSync, loading, stored, written, invoked, typed, events>>

\* lines 346-349: the new-seed-phrase modal is closed.
CloseNewSeedPhrase ==
    /\ NoReactionQueued
    /\ showNewSeedPhrase
    /\ showNewSeedPhrase' = FALSE
    /\ UNCHANGED <<seedPhrase, autoSync, newSeedPhrase, syncing, selectedServer,
                   customServers, newServerUrl, showAddServer, isValidUrl,
                   onSync, loading, tasks, stored, written, cryptoKey, notification,
                   lastDone, clean, invoked, typed, events>>

(***************************************************************************)
(* The component: what the user can do, and what the awaited calls do.     *)
(***************************************************************************)
ServerStep ==
    \/ OpenAddServer
    \/ CloseAddServer
    \/ \E value \in UrlStrings : handleUrlChange(value)
    \/ \E key \in {"Enter", "a"} : handleKeyPress(key)
    \/ ClickAddServer
    \/ ClickRemoveServer
    \/ SelectServer

SaveStep ==
    \/ \E i \in 1..Len(tasks) : getSyncSettingsSettles(i)
    \/ \E i \in 1..Len(tasks) : saveSyncSettingsSettles(i)
    \/ \E i \in 1..Len(tasks) : AfterSave(i)

SyncStep ==
    \/ \E i \in 1..Len(tasks) : initializeCryptoSettles(i)
    \/ \E i \in 1..Len(tasks) : healthCheckSettles(i)
    \/ \E i \in 1..Len(tasks) : syncWithServerSettles(i)
    \/ \E i \in 1..Len(tasks) : syncSaveSettles(i)
    \/ \E i \in 1..Len(tasks) : onSyncSettles(i)

\* The server list and its modal.
NextServers ==
    \/ loadSettings
    \/ ServerStep
    \/ SaveStep

\* The sync cycle, with the handlers that change what it closed over.
NextSync ==
    \/ loadSettings
    \/ ClickSyncNow
    \/ SelectServer
    \/ ClickRemoveServer
    \/ \E value \in SeedStrings : SeedPhraseInput(value)
    \/ SaveStep
    \/ SyncStep

\* Adding servers: the modal and its URL field, and the removal that lets a
\* URL be added again.
NextAddServer ==
    \/ loadSettings
    \/ OpenAddServer
    \/ CloseAddServer
    \/ \E value \in UrlStrings : handleUrlChange(value)
    \/ \E key \in {"Enter", "a"} : handleKeyPress(key)
    \/ ClickAddServer
    \/ ClickRemoveServer
    \/ SaveStep

\* The sync cycle, with the handlers that change the selection under it: a
\* server is added, removed or selected while the cycle is in flight.
NextSyncServers ==
    \/ loadSettings
    \/ ClickSyncNow
    \/ OpenAddServer
    \/ handleUrlChange("http://b.example")
    \/ ClickAddServer
    \/ ClickRemoveServer
    \/ SelectServer
    \/ SaveStep
    \/ SyncStep

\* Removing and selecting servers, from a list of two custom servers.
NextRemoval ==
    \/ loadSettings
    \/ ClickRemoveServer
    \/ SelectServer
    \/ SaveStep

\* The seed phrase: typed, generated, and saved with the auto-sync flag.
NextSeed ==
    \/ loadSettings
    \/ \E value \in SeedStrings : SeedPhraseInput(value)
    \/ AutoSyncSwitch
    \/ generateNewSeedPhrase
    \/ CloseNewSeedPhrase
    \/ SaveStep
    \/ \E i \in 1..Len(tasks) : generateCryptoSettles(i)

\* Edits of the Seed Phrase field and the saves they start; no handler awaits
\* these saves, so none is resumed after them.
NextSeedEdits ==
    \/ loadSettings
    \/ \E value \in SeedStrings : SeedPhraseInput(value)
    \/ \E i \in 1..Len(tasks) : getSyncSettingsSettles(i)
    \/ \E i \in 1..Len(tasks) : saveSyncSettingsSettles(i)

\* The sync cycle and the generation of a seed phrase: the two handlers that
\* initialize the crypto service.
NextSyncSeed ==
    \/ loadSettings
    \/ ClickSyncNow
    \/ generateNewSeedPhrase
    \/ SaveStep
    \/ SyncStep
    \/ \E i \in 1..Len(tasks) : generateCryptoSettles(i)

Next ==
    \/ loadSettings
    \/ ServerStep
    \/ \E value \in SeedStrings : SeedPhraseInput(value)
    \/ AutoSyncSwitch
    \/ ClickSyncNow
    \/ generateNewSeedPhrase
    \/ CloseNewSeedPhrase
    \/ SaveStep
    \/ SyncStep
    \/ \E i \in 1..Len(tasks) : generateCryptoSettles(i)

Spec == Init /\ [][Next]_vars

SpecServers == Init /\ [][NextServers]_vars

SpecAddServer == Init /\ [][NextAddServer]_vars

SpecSync == Init /\ [][NextSync]_vars

SpecSyncServers == Init /\ [][NextSyncServers]_vars

SpecRemoval == InitTwoServers /\ [][NextRemoval]_vars

SpecSeed == Init /\ [][NextSeed]_vars

SpecSeedEdits == Init /\ [][NextSeedEdits]_vars

SpecSyncSeed == Init /\ [][NextSyncSeed]_vars

\* Every awaited call of a sync cycle eventually resolves or rejects.
SpecSyncFair == Init /\ [][NextSync]_vars /\ WF_vars(SyncStep)

(***************************************************************************)
(* Properties of the sync cycle.                                           *)
(***************************************************************************)
InFlight == {i \in 1..Len(tasks) : tasks[i].h = "handleSync"}

\* The cycles in flight, and the cycle that completed last.
Cycles ==
    {tasks[i] : i \in InFlight} \cup (IF lastDone.h = "handleSync" THEN {lastDone} ELSE {})

\* C1: sync cycles never run interleaved: at most one handleSync invocation is
\* between its initializeCrypto call and its completion, syncing stays set for
\* as long as it is, and so syncWithServer is never in flight twice.
C1_CyclesNeverInterleave ==
    /\ Cardinality(InFlight) <= 1
    /\ InFlight # {} => syncing
    /\ Cardinality({i \in InFlight : tasks[i].pc = "syncWithServer"}) <= 1

\* A cycle is in its syncWithServer while the user could still invoke a handler:
\* only the Sync Now button stands between them and a second cycle.
C1_Witness ==
    /\ CanInvoke
    /\ seedPhrase # ""
    /\ ~SyncButtonEnabled
    /\ \E i \in InFlight : tasks[i].pc = "syncWithServer"

\* C2: in every cycle syncWithServer(s) is called only after healthCheck(s) has
\* returned true in that cycle, for the same server s, whatever the selection
\* has become in the meantime.
C2_HealthCheckPrecedesSync ==
    \A t \in Cycles :
        t.calls.syncWithServer >= 1 =>
            /\ t.calls.healthCheck >= 1
            /\ t.health = "true"
            /\ t.target = t.probed

\* A cycle is in its syncWithServer and the selection has changed under it.
C2_Witness ==
    \E i \in InFlight :
        /\ tasks[i].pc = "syncWithServer"
        /\ selectedServer # tasks[i].probed

C3_UnhealthyState ==
    \A t \in Cycles :
        t.health = "false" =>
            /\ t.pc = "done"
            /\ t.failed = "unhealthy"
            /\ t.calls.healthCheck = 1
            /\ t.calls.syncWithServer = 0
            /\ t.calls.saveSyncSettings = 0
            /\ t.calls.onSync = 0
            /\ t.shown = Notify("Error", <<"Server ", t.probed, " is not healthy">>)

C3_UnhealthyStep ==
    (/\ Len(tasks') < Len(tasks)
     /\ lastDone'.h = "handleSync"
     /\ lastDone'.health = "false")
    => /\ stored' = stored
       /\ written' = written
       /\ notification' = lastDone'.shown

\* C3: when healthCheck returns false the cycle ends there in failure: the
\* health check is called once, syncWithServer, saveSyncSettings and onSync
\* are not called, the step that ends the cycle leaves the stored settings as
\* they are, and the error shown names the unhealthy server.
C3_UnhealthyAbortsUntouched ==
    []C3_UnhealthyState /\ [][C3_UnhealthyStep]_vars

\* A cycle has ended on a health check that returned false.
C3_Witness ==
    /\ lastDone.h = "handleSync"
    /\ lastDone.health = "false"

C11_CryptoFailureState ==
    \A t \in Cycles :
        t.failed = "initializeCrypto" =>
            /\ t.pc = "done"
            /\ t.calls.initializeCrypto = 1
            /\ t.calls.healthCheck = 0
            /\ t.calls.syncWithServer = 0
            /\ t.calls.saveSyncSettings = 0
            /\ t.calls.onSync = 0
            /\ t.shown.title = "Error"

C11_CryptoFailureStep ==
    (/\ Len(tasks') < Len(tasks)
     /\ lastDone'.h = "handleSync"
     /\ lastDone'.failed = "initializeCrypto")
    => /\ stored' = stored
       /\ written' = written
       /\ cryptoKey' = cryptoKey
       /\ ~syncing'

\* C11: when initializeCrypto rejects in handleSync the cycle ends there:
\* healthCheck, syncWithServer, saveSyncSettings and onSync are not called in
\* that cycle, and the step that ends it leaves the stored settings, the
\* objects written and the key of the crypto service as they are.
C11_CryptoFailureAbortsUntouched ==
    []C11_CryptoFailureState /\ [][C11_CryptoFailureStep]_vars

\* A cycle has ended on an initializeCrypto that rejected.
C11_Witness ==
    /\ lastDone.h = "handleSync"
    /\ lastDone.failed = "initializeCrypto"
    /\ lastDone.calls.initializeCrypto = 1

C12_OutcomeState ==
    \A t \in Cycles :
        /\ t.c.seedPhrase # ""
        /\ t.pc # "done" => (t.shows = 0 /\ t.shown = NoNotification)
        /\ t.pc = "done" => (t.shows = 1 /\ t.shown.title \in {"Success", "Error"})
        /\ t.shown.title = "Error" => t.failed # "none"
        /\ t.shown.title = "Success" =>
              /\ t.shown = Notify("Success", <<"Notes synced successfully">>)
              /\ t.failed = "none"
              /\ t.calls.initializeCrypto = 1
              /\ t.calls.healthCheck = 1
              /\ t.health = "true"
              /\ t.calls.syncWithServer = 1
              /\ t.synced
              /\ t.calls.saveSyncSettings = 1
              /\ t.calls.onSync = (IF onSync THEN 1 ELSE 0)

C12_OutcomeStep ==
    /\ (Len(tasks') < Len(tasks) /\ lastDone'.h = "handleSync")
          => notification' = lastDone'.shown
    /\ \A i \in InFlight :
          (Len(tasks') = Len(tasks) /\ tasks'[i] # tasks[i]) => notification' = notification

\* C12: a cycle that has started shows no notification while it runs and
\* exactly one when it ends, the success notification or an error; the success
\* notification is shown only when initializeCrypto, healthCheck (returning
\* true), syncWithServer, saveSyncSettings and, if the prop is set, onSync have
\* each been called once and none has failed.
C12_ExactlyOneOutcome ==
    []C12_OutcomeState /\ [][C12_OutcomeStep]_vars

\* A cycle has ended in success and another way of ending was open to it.
C12_Witness ==
    /\ lastDone.h = "handleSync"
    /\ lastDone.shows = 1
    /\ lastDone.shown.title = "Success"
    /\ onSync
    /\ notification = lastDone.shown

C13_NoEmptyCycle ==
    /\ \A t \in Cycles : t.c.seedPhrase # ""
    /\ (syncing /\ seedPhrase = "") => InFlight # {}

C13_EmptySeedStep ==
    (/\ events' = events + 1
     /\ invoked' = "handleSync"
     /\ seedPhrase = "")
    => /\ notification' = Notify("Error", <<"Please enter a seed phrase">>)
       /\ syncing' = syncing
       /\ tasks' = tasks
       /\ cryptoKey' = cryptoKey
       /\ stored' = stored
       /\ written' = written
       /\ ui' = ui

\* C13: handleSync with an empty seed phrase starts no cycle: it shows
\* 'Please enter a seed phrase' and returns, leaving syncing, the tasks in
\* flight, the crypto key and the settings as they are; no cycle ever runs
\* with an empty seed phrase.
C13_EmptySeedStartsNoCycle ==
    []C13_NoEmptyCycle /\ [][C13_EmptySeedStep]_vars

\* Sync Now was clicked with an empty seed phrase after the settings were loaded.
C13_Witness ==
    /\ invoked = "handleSync"
    /\ ~loading
    /\ seedPhrase = ""
    /\ ~syncing
    /\ InFlight = {}
    /\ notification = Notify("Error", <<"Please enter a seed phrase">>)

\* C7: every object passed to saveSyncSettings carries all five fields.
C7_WholeObjectWritten ==
    written # NoWrite => DOMAIN written = SettingsFields

\* C9: whenever syncing is set it is eventually cleared again.
C9_SyncingReturnsToIdle == syncing ~> ~syncing

\* A cycle has failed and syncing is cleared.
C9_Witness ==
    /\ lastDone.h = "handleSync"
    /\ lastDone.failed # "none"
    /\ ~syncing

\* C10: in every cycle onSync is called at most once, only after syncWithServer
\* has resolved, and never in a cycle where initializeCrypto, healthCheck or
\* syncWithServer failed.
C10_OnSyncOnlyAfterSync ==
    \A t \in Cycles :
        /\ t.calls.onSync <= 1
        /\ t.calls.onSync >= 1 => (t.synced /\ t.calls.syncWithServer = 1)
        /\ t.failed \in {"initializeCrypto", "healthCheck", "unhealthy", "syncWithServer"}
              => t.calls.onSync = 0

\* onSync has been called in a cycle whose syncWithServer resolved.
C10_Witness ==
    \E t \in Cycles : t.calls.onSync = 1 /\ t.synced

(***************************************************************************)
(* Properties of the server list and of the settings written.              *)
(***************************************************************************)
Members(seq) == {seq[n] : n \in 1..Len(seq)}

\* C4: in every settings object written, server_url is a default server or a
\* member of the same object's custom_servers.
C4_WrittenServerIsKnown ==
    (Has(written, "server_url") /\ Has(written, "custom_servers")) =>
        written.server_url \in DefaultValues \cup Members(written.custom_servers)

\* C5: every custom server passes validateUrl; the empty string is never one.
C5_CustomServersWellFormed ==
    \A url \in Members(customServers) : validateUrl(url)

C6_Unique ==
    /\ \A m, n \in 1..Len(customServers) : customServers[m] = customServers[n] => m = n
    /\ Members(customServers) \cap DefaultValues = {}

C6_AddOfExisting ==
    (/\ events' = events + 1
     /\ invoked' = "handleAddServer"
     /\ isValidUrl
     /\ Includes(customServers, newServerUrl) \/ newServerUrl \in DefaultValues)
    => /\ customServers' = customServers
       /\ selectedServer' = selectedServer
       /\ stored' = stored
       /\ written' = written
       /\ tasks' = tasks
       /\ notification' = Notify("Error", <<"Server already exists">>)

\* C6: customServers holds no URL twice and no default server, and an add of a
\* URL that is already a custom or a default server changes neither
\* customServers, selectedServer nor the stored settings and reports
\* 'Server already exists'.
C6_CustomServersUnique ==
    []C6_Unique /\ [][C6_AddOfExisting]_vars

\* An add of a URL already present has been reported.
C6_Witness ==
    /\ invoked = "handleAddServer"
    /\ notification = Notify("Error", <<"Server already exists">>)
    /\ customServers # <<>>

C14_SelectionKnownAfterRemove ==
    lastDone.h = "handleRemoveServer" =>
        selectedServer \in DefaultValues \cup Members(customServers)

C14_RemoveStep ==
    /\ (events' = events + 1 /\ invoked' = "handleRemoveServer")
          => /\ customServers' = Filter(customServers, tasks'[Len(tasks')].arg)
             /\ ~Includes(customServers', tasks'[Len(tasks')].arg)
             /\ selectedServer' = selectedServer
    /\ \A i \in 1..Len(tasks) :
          tasks[i].h = "handleRemoveServer" =>
              /\ (Len(tasks') = Len(tasks) /\ tasks'[i].stage # tasks[i].stage)
                    => /\ tasks[i].c.selectedServer = tasks[i].arg
                       /\ selectedServer' = DEFAULT_SERVERS[1]
              /\ (tasks' = RemoveAt(tasks, i) /\ lastDone' = Summary(tasks[i]))
                    => /\ selectedServer' = selectedServer
                       /\ customServers' = customServers
                       /\ tasks[i].stage = 2 <=> tasks[i].c.selectedServer = tasks[i].arg

\* C14: handleRemoveServer(url) takes url out of customServers as it is
\* invoked; it sets selectedServer, to the first default server, only when url
\* was the selected server, and otherwise leaves it as it is; once it has
\* completed selectedServer is a default server or one of customServers.
C14_RemoveKeepsSelectionKnown ==
    []C14_SelectionKnownAfterRemove /\ [][C14_RemoveStep]_vars

\* C8: when handlers run one at a time and no storage call fails, the object a
\* saveSettings writes agrees with the latest update to every field, and once
\* handleRemoveServer(url) on the selected custom server has completed the
\* stored custom_servers does not contain url.
C8_NoUpdateLost ==
    /\ (/\ clean
        /\ Len(tasks) = 1
        /\ tasks[1].pc = "saveSyncSettings"
        /\ tasks[1].h # "handleSync")
       => /\ tasks[1].obj.custom_servers = customServers
          /\ tasks[1].obj.server_url = selectedServer
          /\ tasks[1].obj.auto_sync = autoSync
          /\ tasks[1].obj.seed_phrase = seedPhrase
    /\ (/\ clean
        /\ tasks = <<>>
        /\ lastDone.h = "handleRemoveServer"
        /\ lastDone.selected = lastDone.arg)
       => ~Includes(stored.custom_servers, lastDone.arg)

(***************************************************************************)
(* Properties of the settings stored and of the seed phrase.               *)
(***************************************************************************)
\* C15: whatever the component does, the stored settings keep the
\* sync_interval they had when the component was mounted.
C15_SyncIntervalKept ==
    /\ Has(stored, "sync_interval")
    /\ stored.sync_interval = InitialInterval

Generating == {i \in 1..Len(tasks) : tasks[i].h = "generateNewSeedPhrase"}

C16_GenerateStep ==
    /\ (events' = events + 1 /\ invoked' = "generateNewSeedPhrase")
          => (ui' = ui /\ stored' = stored /\ written' = written /\ cryptoKey' = cryptoKey)
    /\ (/\ Len(tasks') < Len(tasks)
        /\ lastDone'.h = "generateNewSeedPhrase"
        /\ lastDone'.pc = "failed")
          => /\ seedPhrase' = seedPhrase
             /\ newSeedPhrase' = newSeedPhrase
             /\ showNewSeedPhrase' = showNewSeedPhrase
             /\ stored' = stored
             /\ written' = written
             /\ cryptoKey' = cryptoKey
             /\ notification' = Notify("Error", <<"Failed to generate seed phrase">>)
    /\ \A i \in Generating :
          (/\ Len(tasks') = Len(tasks)
           /\ tasks[i].pc = "initializeCrypto"
           /\ tasks'[i].pc # "initializeCrypto")
            => /\ cryptoKey' = tasks[i].arg
               /\ seedPhrase' = tasks[i].arg
               /\ newSeedPhrase' = tasks[i].arg
               /\ tasks'[i].pc = "getSyncSettings"
               /\ tasks'[i].updates = [seed_phrase |-> tasks[i].arg]
               /\ showNewSeedPhrase' = showNewSeedPhrase
    /\ (showNewSeedPhrase' /\ ~showNewSeedPhrase)
          => /\ Len(tasks') < Len(tasks)
             /\ lastDone'.h = "generateNewSeedPhrase"
             /\ lastDone'.pc = "returned"
             /\ \E i \in Generating : tasks[i].pc = "returned"

\* C16: generateNewSeedPhrase changes nothing before initializeCrypto(mnemonic)
\* has settled; when that call rejects, seedPhrase, newSeedPhrase, the modal
\* flag and the stored settings stay as they are and 'Failed to generate seed
\* phrase' is shown; when it resolves, seedPhrase and newSeedPhrase are set to
\* the mnemonic the crypto service was initialized with and a save of that
\* mnemonic is started; the modal opens only when that save has settled.
C16_GenerateAllOrNothing == [][C16_GenerateStep]_vars

\* A generation has failed on initializeCrypto with a seed phrase loaded.
C16_Witness ==
    /\ lastDone.h = "generateNewSeedPhrase"
    /\ lastDone.pc = "failed"
    /\ seedPhrase = "alpha"
    /\ stored.seed_phrase = "alpha"
    /\ newSeedPhrase = ""
    /\ ~showNewSeedPhrase
    /\ notification = Notify("Error", <<"Failed to generate seed phrase">>)

\* C17: when the Seed Phrase field has been edited, every save the edits
\* started has settled and none of them has failed, the stored seed_phrase is
\* the value typed last.
C17_LastEditPersisted ==
    (/\ typed # "none"
     /\ tasks = <<>>
     /\ notification = NoNotification)
    => /\ Has(stored, "seed_phrase")
       /\ stored.seed_phrase = typed

\* C18: from the moment a cycle's initializeCrypto(p) has resolved until its
\* syncWithServer has settled, the key of the crypto service is the key of p,
\* the seed phrase the cycle closed over and persists after the sync.
C18_CycleRunsUnderOwnKey ==
    \A i \in InFlight :
        tasks[i].pc \in {"healthCheck", "syncWithServer"} =>
            cryptoKey = tasks[i].c.seedPhrase
====
